---- MODULE Spec2Model ----
(***************************************************************************)
(* micro_async: a bare-metal cooperative executor (executor.rs), an RTC    *)
(* backed timer queue (time.rs), a GPIOTE edge channel manager (gpiote.rs) *)
(* and a single-slot mailbox (channel.rs).                                 *)
(*                                                                         *)
(* Thread mode (the executor loop and the task bodies it polls) is         *)
(* interleaved with interrupt handlers.  A critical section is one atomic  *)
(* action.  A hardware event raised while thread mode is inside a critical *)
(* section stays latched until the section ends: at most one critical      *)
(* section runs between the event and its handler, and no other thread     *)
(* mode step does.                                                         *)
(***************************************************************************)
EXTENDS Integers, Sequences, FiniteSets, TLC

\* ------------------------------------------------------------- bounds
\* Width of the hardware counter (24 in time.rs, scaled down).
CounterBits == 2
\* values sent through the Channel are 1 .. MaxItem
MaxItem == 2
\* level changes of the input pins in one run
MaxEdges == 2
\* values a LockMut holds are 0 .. MaxLockVal
MaxLockVal == 2
\* calls of InputChannel::new in one run
MaxNewCalls == 13
\* Hardware wraparounds explored.
MaxOverflow == 1
\* N of run_tasks<N> in the main specification.
NTasks == 2
\* Ticks explored by the specification with one more task.
ShortHorizon == 2

\* ---------------------------------------------------- program constants
MAX_TASKS == 4
MAX_CHANNELS == 8
\* Option::None of the mailbox slot
NoItem == 0
NoWaker == -1
NoTask == -1
NoUnit == -1
\* Option::None inside a LockMut
NoVal == -1

WRAP == 2 ^ CounterBits
Slots == 0 .. (MAX_TASKS - 1)
\* durations handed to Timer::new: none, one tick, more than the counter holds
Durations == {0, 1, WRAP + 1}
Items == 1 .. MaxItem
\* the task that owns the Receiver
RecvTask == 0
\* task t owns the InputChannel created t-th; the level the tasks wait for
ReadyState == 1
Units == 0 .. (MAX_CHANNELS - 1)
\* WAKE_TASKS entry with no task to wake
INVALID_TASK_ID == -1

VARIABLES
    \* the scenario, fixed by the initial state
    N,               \* tasks handed to run_tasks<N>
    horizon,         \* last tick explored
    \* RTC0 peripheral
    counter,         \* COUNTER register
    cc0,             \* CC[0] compare register
    evOvf,           \* EVENTS_OVRFLW, latched
    evCmp,           \* EVENTS_COMPARE[0], latched
    \* Ticker
    overflow_count,
    deadlines,       \* TimerQueue.timers, a sequence of timer slots
    \* Timer objects, one slot per task
    tstate,          \* "None" (no object), "Init", "Wait"
    end_time,
    waker,
    \* Executor
    TASK_ID_READY,
    pc,              \* position of run_tasks
    initI,           \* task_id of the initial enqueue loop
    running,         \* task being polled
    panic,           \* "" or the panic message; a panic halts the core
    deferred,        \* a critical section ran while an RTC event was latched
    \* Channel<T> (channel.rs) and its Receiver
    item,            \* Cell<Option<T>>
    chWaker,         \* RefCell<Option<Waker>>, by task id
    recvState,       \* Receiver.state: "Init" or "Wait"
    \* GPIOTE (gpiote.rs)
    gpiote,          \* GPIOTE_MANAGER.gpiote is Some
    NEXT_CHANNEL,
    channels,        \* channel_id of every InputChannel created, in order
    \* tasks whose poll has returned Poll::Ready (executor.rs)
    completed,
    \* GPIO edge wait (gpiote.rs)
    pin,             \* level of the input pin of each unit, 0 or 1
    evIn,            \* EVENTS_IN of each unit is latched
    WAKE_TASKS,
    wfState,         \* wait_for of each task: "Read" before the pin read of a poll, "Store"
                     \* between the read and the store, "Done" once Ready
    edges,           \* level changes so far
    \* AtomicWaker (atomic_waker.rs)
    awSlot,          \* Cell<Option<Waker>>: NoWaker or the task id the waker wakes
    \* LockMut<T> (utils/lockmut.rs)
    lmInner,         \* RefCell<Option<T>>: NoVal or the stored value
    \* observation only
    lmLog,           \* latest LockMut access: <<operation, a value was stored,
                     \* closure applied or reference handed out>>
    recvLog,         \* <<returned>> \o lastSent when the latest step was a recv()
    lastSent,        \* <<value of the latest send since the latest recv(), it replaced an unread one>>
    newLog,          \* <<call number, unit, error>> when the latest step was InputChannel::new
    newCalls,        \* calls of InputChannel::new so far
    earlyCalls,      \* those made before GpioteManager::init
    wraps,           \* true number of hardware wraparounds
    lastNow,         \* value returned by the latest Ticker::now()
    nowFresh,        \* the latest step called Ticker::now()
    fires,           \* per slot: wakes by the RTC handler since Timer::new
    early,           \* per slot: the handler woke it with now() < end_time
    barren,          \* handler entries at or after the sibling's deadline that left it queued,
                     \* kept once the handler has fired the sibling
    sibling,         \* slot whose same-deadline sibling was fired, or NoTask
    lastDrop,        \* <<position, length>> when the latest step dropped a queued timer
    debt,            \* per task: pushes not yet answered by a poll
    lostWake         \* a push met a full queue

rtcVars == <<counter, cc0, evOvf, evCmp>>
tickerVars == <<overflow_count, deadlines>>
timerVars == <<tstate, end_time, waker>>
execVars == <<TASK_ID_READY, pc, initI, running, panic, deferred>>
obsVars == <<wraps, lastNow, nowFresh, fires, early, barren, sibling, lastDrop, debt, lostWake>>
Tasks == 0 .. (N - 1)
scenario == <<N, horizon>>
chanVars == <<item, chWaker, recvState, recvLog, lastSent>>
gpioVars == <<gpiote, NEXT_CHANNEL, channels, newLog, newCalls, earlyCalls>>
lockVars == <<lmInner, lmLog>>
awVars == <<awSlot>>
doneVars == <<completed>>
edgeVars == <<pin, evIn, WAKE_TASKS, wfState, edges>>

vars == <<N, horizon, rtcVars, tickerVars, timerVars, execVars, chanVars, gpioVars, lockVars, awVars, doneVars, edgeVars, obsVars>>

\* ------------------------------------------------------------ helpers
Range(s) == {s[i] : i \in 1 .. Len(s)}
IndexOf(s, x) == CHOOSE i \in 1 .. Len(s) : s[i] = x
RemoveAt(s, i) == SubSeq(s, 1, i - 1) \o SubSeq(s, i + 1, Len(s))
InsertAt(s, i, x) == SubSeq(s, 1, i - 1) \o <<x>> \o SubSeq(s, i, Len(s))
Count(s, x) == Cardinality({i \in 1 .. Len(s) : s[i] = x})

\* ------------------------------------------------------------ time.rs
\* Ticker::now: (overflow << 24) | counter
now(overflow, cnt) == overflow * WRAP + cnt

\* set_deadline: the low bits of the deadline go to the compare register
set_deadline(deadline) == deadline % WRAP

\* LinkedListAtomicLink::is_linked
is_linked(q, t) == t \in Range(q)

\* an insertion that ignores the deadlines and links at the head
insert_timer_at_head(q, et, t) == <<t>> \o q

\* an insertion that ignores the deadlines and links at the tail
insert_timer_at_tail(q, et, t) == Append(q, t)

\* an insertion that stops at the first member whose end_time is not smaller
insert_timer_before_equal(q, et, t) ==
    LET later == {i \in 1 .. Len(q) : et[q[i]] >= et[t]}
        pos == IF later = {} THEN Len(q) + 1
               ELSE CHOOSE i \in later : \A j \in later : i <= j
    IN InsertAt(q, pos, t)

\* TimerQueue::insert_timer: before the first member whose end_time is greater
insert_timer(q, et, t) ==
    LET later == {i \in 1 .. Len(q) : et[q[i]] > et[t]}
        pos == IF later = {} THEN Len(q) + 1
               ELSE CHOOSE i \in later : \A j \in later : i <= j
    IN InsertAt(q, pos, t)

\* a removal that unlinks nothing
remove_timer_noop(q, t) == q

\* TimerQueue::remove_timer
remove_timer(q, t) == IF is_linked(q, t) THEN RemoveAt(q, IndexOf(q, t)) ELSE q

\* TimerQueue::pop_earliest (the remaining list)
pop_earliest(q) == Tail(q)

\* TimerQueue::peek_earliest, for a non-empty list
peek_earliest(q) == Head(q)

\* a reprogramming that takes the latest deadline instead of the earliest
reprogram_latest(q, et, cc) == IF q = <<>> THEN cc ELSE set_deadline(et[q[Len(q)]])

\* compare register after add_to_queue / remove_from_queue / the handler:
\* reprogrammed only when a deadline remains
reprogram(q, et, cc) == IF q = <<>> THEN cc ELSE set_deadline(et[peek_earliest(q)])

\* ---------------------------------------------------------- executor.rs
\* Queue::enqueue of heapless::mpmc: Err when MAX_TASKS items are queued
enqueue_ok(q) == Len(q) < MAX_TASKS

\* a wake that swallows the enqueue error
wake_task_silent(q, task_id) ==
    IF enqueue_ok(q) THEN <<Append(q, task_id), "">> ELSE <<q, "">>

\* Executor::wake_task: <<queue, panic message>>
wake_task(q, task_id) ==
    IF enqueue_ok(q) THEN <<Append(q, task_id), "">>
    ELSE <<q, "Task Queue is full">>

Pending == evOvf \/ evCmp
\* a thread mode step outside any critical section: preempted by a latched event
ThreadStep == panic = "" /\ ~Pending
\* a critical section: the event may have been raised while it was running
CritStep == panic = "" /\ (Pending => ~deferred)

NoDrop == <<0, 0>>

\* true tick count, for observation
TrueNow == wraps * WRAP + counter
Bump(f, t) == [f EXCEPT ![t] = @ + 1]

\* -------------------------------------------------------------- Init
InitWith(n, h) ==
    /\ N = n /\ horizon = h
    /\ counter = 0 /\ cc0 = 0 /\ evOvf = FALSE /\ evCmp = FALSE
    /\ overflow_count = 0 /\ deadlines = <<>>
    /\ tstate = [t \in Slots |-> "None"]
    /\ end_time = [t \in Slots |-> 0]
    /\ waker = [t \in Slots |-> NoWaker]
    /\ TASK_ID_READY = <<>> /\ pc = "init" /\ initI = 0
    /\ running = NoTask /\ panic = "" /\ deferred = FALSE
    /\ wraps = 0 /\ lastNow = 0 /\ nowFresh = FALSE
    /\ fires = [t \in Slots |-> 0] /\ early = [t \in Slots |-> FALSE]
    /\ barren = 0 /\ sibling = NoTask /\ lastDrop = NoDrop
    /\ debt = [t \in Slots |-> 0] /\ lostWake = FALSE
    /\ item = NoItem /\ chWaker = NoWaker /\ recvState = "Init"
    /\ recvLog = <<>> /\ lastSent = <<NoItem, FALSE>>
    /\ gpiote = FALSE /\ NEXT_CHANNEL = 0 /\ channels = <<>>
    /\ newLog = <<>> /\ newCalls = 0 /\ earlyCalls = 0
    /\ lmInner = NoVal /\ lmLog = <<>>
    /\ awSlot = NoWaker
    /\ completed = {}
    /\ pin = [u \in Units |-> 1 - ReadyState] /\ evIn = [u \in Units |-> FALSE]
    /\ WAKE_TASKS = [u \in Units |-> INVALID_TASK_ID]
    /\ wfState = [t \in Slots |-> "Read"] /\ edges = 0

\* ------------------------------------------------------ RTC0 hardware
\* One tick of the 32768 Hz counter.  OVRFLW is raised on the wrap to 0 and
\* COMPARE[0] when the counter reaches CC[0].
Tick ==
    /\ panic = "" /\ ~Pending
    /\ TrueNow < horizon
    /\ counter' = (counter + 1) % WRAP
    /\ evOvf' = (counter' = 0)
    /\ evCmp' = (counter' = cc0)
    /\ wraps' = IF counter' = 0 THEN wraps + 1 ELSE wraps
    /\ deferred' = FALSE
    /\ UNCHANGED <<cc0, tickerVars, timerVars, TASK_ID_READY, pc, initI, running, panic>>
    /\ UNCHANGED <<lastNow, fires, early, barren, sibling, debt, lostWake>>
    /\ UNCHANGED <<scenario, doneVars, awVars, edgeVars, lockVars, chanVars, gpioVars>>
    /\ lastDrop' = NoDrop /\ nowFresh' = FALSE

\* handle_rtc0_interrupt, run by the RTC0 vector inside TICKER.with_lock
handle_rtc0_interrupt ==
    /\ panic = "" /\ Pending
    /\ LET ovf1 == IF evOvf THEN overflow_count + 1 ELSE overflow_count
           empty == deadlines = <<>>
           latest == Head(deadlines)
           rest == pop_earliest(deadlines)
           w == waker[latest]
           woken == wake_task(TASK_ID_READY, w)
           fired == evCmp /\ ~empty /\ w # NoWaker
           \* the tracked sibling stays queued / the one just fired has a twin
           waits == sibling # NoTask /\ ~(fired /\ latest = sibling)
           twin == fired /\ rest # <<>> /\ end_time[Head(rest)] = end_time[latest]
       IN /\ overflow_count' = ovf1
          /\ evOvf' = FALSE /\ evCmp' = FALSE
          /\ IF ~evCmp
             THEN UNCHANGED <<deadlines, cc0, waker, TASK_ID_READY, panic>>
             ELSE IF empty
             THEN /\ panic' = "No deadline available on interrupt"
                  /\ UNCHANGED <<deadlines, cc0, waker, TASK_ID_READY>>
             ELSE /\ deadlines' = rest
                  /\ cc0' = reprogram(rest, end_time, cc0)
                  /\ waker' = [waker EXCEPT ![latest] = NoWaker]
                  /\ IF w = NoWaker
                     THEN /\ panic' = "Timer does not have an associated waker"
                          /\ UNCHANGED TASK_ID_READY
                     ELSE /\ TASK_ID_READY' = woken[1]
                          /\ panic' = woken[2]
          /\ pc' = IF pc = "sleep" THEN "dequeue" ELSE pc
          /\ deferred' = FALSE
          /\ fires' = IF fired THEN Bump(fires, latest) ELSE fires
          /\ early' = IF fired /\ now(ovf1, counter) < end_time[latest]
                      THEN [early EXCEPT ![latest] = TRUE] ELSE early
          /\ debt' = IF fired /\ enqueue_ok(TASK_ID_READY) THEN Bump(debt, w) ELSE debt
          /\ lostWake' = (lostWake \/ (fired /\ Len(TASK_ID_READY) >= MAX_TASKS))
          /\ sibling' = IF waits THEN sibling ELSE IF twin THEN Head(rest) ELSE NoTask
          /\ barren' = IF waits
                       THEN IF now(ovf1, counter) >= end_time[sibling]
                            THEN barren + 1 ELSE barren
                       ELSE IF twin THEN 0 ELSE barren
    /\ UNCHANGED <<counter, tstate, end_time, initI, running, wraps, lastNow>>
    /\ UNCHANGED <<scenario, doneVars, awVars, edgeVars, lockVars, chanVars, gpioVars>>
    /\ lastDrop' = NoDrop /\ nowFresh' = FALSE

\* ------------------------------------------------------- Executor loop
\* run_tasks, the initial enqueue of every task id
RunEnqueue ==
    /\ ThreadStep /\ pc = "init"
    /\ IF enqueue_ok(TASK_ID_READY)
       THEN /\ TASK_ID_READY' = Append(TASK_ID_READY, initI)
            /\ debt' = Bump(debt, initI)
            /\ initI' = initI + 1
            /\ pc' = IF initI + 1 = N THEN "dequeue" ELSE "init"
            /\ UNCHANGED panic
       ELSE /\ panic' = "Task queue is full"
            /\ UNCHANGED <<TASK_ID_READY, debt, initI, pc>>
    /\ lostWake' = (lostWake \/ Len(TASK_ID_READY) >= MAX_TASKS)
    /\ UNCHANGED <<rtcVars, tickerVars, timerVars, running, deferred>>
    /\ UNCHANGED <<wraps, lastNow, fires, early, barren, sibling>>
    /\ UNCHANGED <<scenario, doneVars, awVars, edgeVars, lockVars, chanVars, gpioVars>>
    /\ lastDrop' = NoDrop /\ nowFresh' = FALSE

\* a guard that also rejects the last valid index
bad_task_id_too_wide(n, task) == task >= n - 1

\* the guard of the "Bad task ID" branch
bad_task_id(n, task) == task > n

\* run_tasks, one TASK_ID_READY.dequeue() of the while-let and what follows
\* it up to the call of poll; an empty queue leaves the loop for wfi
Dequeue ==
    /\ ThreadStep /\ pc = "dequeue"
    /\ IF TASK_ID_READY = <<>>
       THEN /\ pc' = "wfi"
            /\ UNCHANGED <<TASK_ID_READY, running, panic, debt>>
       ELSE LET task == Head(TASK_ID_READY)
            IN /\ TASK_ID_READY' = Tail(TASK_ID_READY)
               /\ IF bad_task_id(N, task)
                  THEN UNCHANGED <<pc, running, panic, debt>>
                  ELSE IF task \notin Tasks
                  THEN /\ panic' = "index out of bounds"
                       /\ UNCHANGED <<pc, running, debt>>
                  ELSE /\ pc' = "task" /\ running' = task
                       /\ debt' = [debt EXCEPT ![task] = @ - 1]
                       /\ UNCHANGED panic
    /\ UNCHANGED <<rtcVars, tickerVars, timerVars, initI, deferred>>
    /\ UNCHANGED <<wraps, lastNow, fires, early, barren, sibling, lostWake>>
    /\ UNCHANGED <<scenario, doneVars, awVars, edgeVars, lockVars, chanVars, gpioVars>>
    /\ lastDrop' = NoDrop /\ nowFresh' = FALSE

\* asm::wfi(): the core sleeps until the next interrupt is taken
Wfi ==
    /\ ThreadStep /\ pc = "wfi"
    /\ pc' = "sleep"
    /\ UNCHANGED <<rtcVars, tickerVars, timerVars, TASK_ID_READY, initI, running, panic, deferred>>
    /\ UNCHANGED <<wraps, lastNow, fires, early, barren, sibling, debt, lostWake>>
    /\ UNCHANGED <<scenario, doneVars, awVars, edgeVars, lockVars, chanVars, gpioVars>>
    /\ lastDrop' = NoDrop /\ nowFresh' = FALSE

\* Executor::wake_task called from another interrupt handler or waker holder
ExternalWake(task_id) ==
    /\ panic = ""
    /\ LET woken == wake_task(TASK_ID_READY, task_id)
       IN /\ TASK_ID_READY' = woken[1]
          /\ panic' = woken[2]
    /\ debt' = IF enqueue_ok(TASK_ID_READY) /\ task_id \in Tasks
               THEN Bump(debt, task_id) ELSE debt
    /\ lostWake' = (lostWake \/ Len(TASK_ID_READY) >= MAX_TASKS)
    /\ pc' = IF pc = "sleep" THEN "dequeue" ELSE pc
    /\ UNCHANGED <<rtcVars, tickerVars, timerVars, initI, running, deferred>>
    /\ UNCHANGED <<wraps, lastNow, fires, early, barren, sibling>>
    /\ UNCHANGED <<scenario, doneVars, awVars, edgeVars, lockVars, chanVars, gpioVars>>
    /\ lastDrop' = NoDrop /\ nowFresh' = FALSE

\* ------------------------------------------- a task that awaits Timers
\* Timer::add_to_queue with the polling task's waker: <<deadlines, waker, cc0>>
add_to_queue(q, et, wk, cc, t, task_id) ==
    IF is_linked(q, t) THEN <<q, wk, cc>>
    ELSE LET q1 == insert_timer(q, et, t)
         IN <<q1, [wk EXCEPT ![t] = task_id], reprogram(q1, et, cc)>>

\* Timer::remove_from_queue: <<deadlines, cc0>>
remove_from_queue(q, et, cc, t) ==
    IF is_linked(q, t)
    THEN LET q1 == remove_timer(q, t) IN <<q1, reprogram(q1, et, cc)>>
    ELSE <<q, cc>>

\* a readiness test that is met one tick before the deadline
is_ready_early(n, et) == n + 1 >= et

\* Timer::is_ready
is_ready(n, et) == n >= et

\* Timer::new(duration) in the running task
TimerNew(d) ==
    /\ CritStep /\ pc = "task" /\ tstate[running] = "None"
    /\ LET n == now(overflow_count, counter)
       IN /\ end_time' = [end_time EXCEPT ![running] = n + d]
          /\ lastNow' = n
    /\ tstate' = [tstate EXCEPT ![running] = "Init"]
    /\ fires' = [fires EXCEPT ![running] = 0]
    /\ early' = [early EXCEPT ![running] = FALSE]
    /\ deferred' = Pending
    /\ UNCHANGED <<rtcVars, tickerVars, waker, TASK_ID_READY, pc, initI, running, panic>>
    /\ UNCHANGED <<wraps, barren, sibling, debt, lostWake>>
    /\ UNCHANGED <<scenario, doneVars, awVars, edgeVars, lockVars, chanVars, gpioVars>>
    /\ lastDrop' = NoDrop /\ nowFresh' = TRUE

\* Timer::poll in state Init: add_to_queue, then Pending
TimerPollInit ==
    /\ CritStep /\ pc = "task" /\ tstate[running] = "Init"
    /\ LET r == add_to_queue(deadlines, end_time, waker, cc0, running, running)
       IN /\ deadlines' = r[1] /\ waker' = r[2] /\ cc0' = r[3]
    /\ tstate' = [tstate EXCEPT ![running] = "Wait"]
    /\ deferred' = Pending
    /\ UNCHANGED <<counter, evOvf, evCmp, overflow_count, end_time>>
    /\ UNCHANGED <<TASK_ID_READY, pc, initI, running, panic>>
    /\ UNCHANGED <<wraps, lastNow, fires, early, barren, sibling, debt, lostWake>>
    /\ UNCHANGED <<scenario, doneVars, awVars, edgeVars, lockVars, chanVars, gpioVars>>
    /\ lastDrop' = NoDrop /\ nowFresh' = FALSE

\* Timer::poll in state Wait, the is_ready() test
TimerPollWait ==
    /\ CritStep /\ pc = "task" /\ tstate[running] = "Wait"
    /\ LET n == now(overflow_count, counter)
       IN /\ lastNow' = n
          /\ pc' = IF is_ready(n, end_time[running]) THEN "remove" ELSE "task"
    /\ deferred' = Pending
    /\ UNCHANGED <<rtcVars, tickerVars, timerVars, TASK_ID_READY, initI, running, panic>>
    /\ UNCHANGED <<wraps, fires, early, barren, sibling, debt, lostWake>>
    /\ UNCHANGED <<scenario, doneVars, awVars, edgeVars, lockVars, chanVars, gpioVars>>
    /\ lastDrop' = NoDrop /\ nowFresh' = TRUE

\* Timer::poll in state Wait once ready: remove_from_queue, Ready; the
\* completed Timer is then dropped
TimerPollReady ==
    /\ CritStep /\ pc = "remove"
    /\ LET r == remove_from_queue(deadlines, end_time, cc0, running)
       IN deadlines' = r[1] /\ cc0' = r[2]
    /\ tstate' = [tstate EXCEPT ![running] = "None"]
    /\ waker' = [waker EXCEPT ![running] = NoWaker]
    /\ pc' = "task"
    /\ deferred' = Pending
    /\ sibling' = IF sibling = running THEN NoTask ELSE sibling
    /\ barren' = IF sibling = running THEN 0 ELSE barren
    /\ end_time' = [end_time EXCEPT ![running] = 0]
    /\ fires' = [fires EXCEPT ![running] = 0]
    /\ early' = [early EXCEPT ![running] = FALSE]
    /\ UNCHANGED <<counter, evOvf, evCmp, overflow_count>>
    /\ UNCHANGED <<TASK_ID_READY, initI, running, panic>>
    /\ UNCHANGED <<wraps, lastNow, debt, lostWake>>
    /\ UNCHANGED <<scenario, doneVars, awVars, edgeVars, lockVars, chanVars, gpioVars>>
    /\ lastDrop' = NoDrop /\ nowFresh' = FALSE

\* impl Drop for Timer: the task drops a Timer it has not completed
TimerDrop ==
    /\ CritStep /\ pc = "task" /\ tstate[running] \in {"Init", "Wait"}
    /\ LET r == remove_from_queue(deadlines, end_time, cc0, running)
       IN deadlines' = r[1] /\ cc0' = r[2]
    /\ tstate' = [tstate EXCEPT ![running] = "None"]
    /\ waker' = [waker EXCEPT ![running] = NoWaker]
    /\ deferred' = Pending /\ nowFresh' = FALSE
    /\ UNCHANGED <<scenario, doneVars, awVars, edgeVars, lockVars, chanVars, gpioVars>>
    /\ lastDrop' = IF is_linked(deadlines, running)
                   THEN <<IndexOf(deadlines, running), Len(deadlines)>> ELSE NoDrop
    /\ sibling' = IF sibling = running THEN NoTask ELSE sibling
    /\ barren' = IF sibling = running THEN 0 ELSE barren
    /\ end_time' = [end_time EXCEPT ![running] = 0]
    /\ fires' = [fires EXCEPT ![running] = 0]
    /\ early' = [early EXCEPT ![running] = FALSE]
    /\ UNCHANGED <<counter, evOvf, evCmp, overflow_count>>
    /\ UNCHANGED <<TASK_ID_READY, pc, initI, running, panic>>
    /\ UNCHANGED <<wraps, lastNow, debt, lostWake>>

\* the polled task returns Poll::Pending to run_tasks
TaskPending ==
    /\ ThreadStep /\ pc = "task"
    /\ pc' = "dequeue" /\ running' = NoTask
    /\ UNCHANGED <<rtcVars, tickerVars, timerVars, TASK_ID_READY, initI, panic, deferred>>
    /\ UNCHANGED <<wraps, lastNow, fires, early, barren, sibling, debt, lostWake>>
    /\ UNCHANGED <<scenario, doneVars, awVars, edgeVars, lockVars, chanVars, gpioVars>>
    /\ lastDrop' = NoDrop /\ nowFresh' = FALSE

\* the polled task returns Poll::Ready(()) to run_tasks, which drops the
\* result and keeps no record of it
TaskReady ==
    /\ ThreadStep /\ pc = "task" /\ running \notin completed
    /\ completed' = completed \cup {running}
    /\ pc' = "dequeue" /\ running' = NoTask
    /\ UNCHANGED <<rtcVars, tickerVars, timerVars, TASK_ID_READY, initI, panic, deferred>>
    /\ UNCHANGED <<wraps, lastNow, fires, early, barren, sibling, debt, lostWake>>
    /\ UNCHANGED <<scenario, awVars, edgeVars, lockVars, chanVars, gpioVars>>
    /\ lastDrop' = NoDrop /\ nowFresh' = FALSE

\* ------------------------------------------------------------ channel.rs
\* a send that keeps an unread item
send_keep_unread(it, v) == IF it = NoItem THEN v ELSE it

\* Channel::send, the slot after self.item.replace(Some(item))
send(it, v) == v

\* Channel::recv, self.item.take(): <<returned, slot>>
recv(it) == <<it, NoItem>>

\* Channel::register
register(wk, task_id) == task_id

\* Sender::send(v) in the running task: store, then wake the registered waker
ChannelSend(v) ==
    /\ ThreadStep /\ pc = "task"
    /\ item' = send(item, v)
    /\ IF chWaker = NoWaker
       THEN UNCHANGED <<TASK_ID_READY, panic, debt>>
       ELSE LET woken == wake_task(TASK_ID_READY, chWaker)
            IN /\ TASK_ID_READY' = woken[1]
               /\ panic' = woken[2]
               /\ debt' = IF enqueue_ok(TASK_ID_READY) THEN Bump(debt, chWaker) ELSE debt
    /\ lostWake' = (lostWake \/ (chWaker # NoWaker /\ Len(TASK_ID_READY) >= MAX_TASKS))
    /\ lastSent' = <<v, lastSent[1] # NoItem \/ lastSent[2]>>
    /\ recvLog' = <<>>
    /\ UNCHANGED <<chWaker, recvState>>
    /\ UNCHANGED <<rtcVars, tickerVars, timerVars, pc, initI, running, deferred>>
    /\ UNCHANGED <<wraps, lastNow, fires, early, barren, sibling>>
    /\ UNCHANGED <<scenario, doneVars, awVars, edgeVars, lockVars, gpioVars>>
    /\ lastDrop' = NoDrop /\ nowFresh' = FALSE

\* Receiver::recv polled in state Init: register the waker, Wait, Pending
ReceiverPollInit ==
    /\ ThreadStep /\ pc = "task" /\ running = RecvTask /\ recvState = "Init"
    /\ chWaker' = register(chWaker, running)
    /\ recvState' = "Wait"
    /\ pc' = "dequeue" /\ running' = NoTask
    /\ recvLog' = <<>>
    /\ UNCHANGED <<item, lastSent>>
    /\ UNCHANGED <<rtcVars, tickerVars, timerVars, TASK_ID_READY, initI, panic, deferred>>
    /\ UNCHANGED <<wraps, lastNow, fires, early, barren, sibling, debt, lostWake>>
    /\ UNCHANGED <<scenario, doneVars, awVars, edgeVars, lockVars, gpioVars>>
    /\ lastDrop' = NoDrop /\ nowFresh' = FALSE

\* Receiver::recv polled in state Wait: Channel::recv, Ready(val) or Pending
ReceiverPollWait ==
    /\ ThreadStep /\ pc = "task" /\ running = RecvTask /\ recvState = "Wait"
    /\ LET r == recv(item)
       IN /\ item' = r[2]
          /\ recvLog' = <<r[1]>> \o lastSent
          /\ pc' = IF r[1] = NoItem THEN "dequeue" ELSE "task"
          /\ running' = IF r[1] = NoItem THEN NoTask ELSE running
    /\ lastSent' = <<NoItem, FALSE>>
    /\ UNCHANGED <<chWaker, recvState>>
    /\ UNCHANGED <<rtcVars, tickerVars, timerVars, TASK_ID_READY, initI, panic, deferred>>
    /\ UNCHANGED <<wraps, lastNow, fires, early, barren, sibling, debt, lostWake>>
    /\ UNCHANGED <<scenario, doneVars, awVars, edgeVars, lockVars, gpioVars>>
    /\ lastDrop' = NoDrop /\ nowFresh' = FALSE

\* Channel::recv called directly by the running task
ChannelRecv ==
    /\ ThreadStep /\ pc = "task"
    /\ LET r == recv(item)
       IN /\ item' = r[2]
          /\ recvLog' = <<r[1]>> \o lastSent
    /\ lastSent' = <<NoItem, FALSE>>
    /\ UNCHANGED <<chWaker, recvState>>
    /\ UNCHANGED <<rtcVars, tickerVars, timerVars, execVars>>
    /\ UNCHANGED <<wraps, lastNow, fires, early, barren, sibling, debt, lostWake>>
    /\ UNCHANGED <<scenario, doneVars, awVars, edgeVars, lockVars, gpioVars>>
    /\ lastDrop' = NoDrop /\ nowFresh' = FALSE


\* ------------------------------------------------------------- gpiote.rs
\* a unit table with one arm too many
get_channel_nine_arms(channel) ==
    IF channel <= MAX_CHANNELS THEN <<channel, "">> ELSE <<NoUnit, "OutOfChannels">>

\* GpioteManager::get_channel: <<unit, error>>
get_channel(channel) ==
    IF channel < MAX_CHANNELS THEN <<channel, "">> ELSE <<NoUnit, "OutOfChannels">>

\* GpioteManager::init
GpioteInit ==
    /\ panic = ""
    /\ gpiote' = TRUE
    /\ newLog' = <<>>
    /\ UNCHANGED <<NEXT_CHANNEL, channels, newCalls, earlyCalls>>
    /\ UNCHANGED <<rtcVars, tickerVars, timerVars, execVars>>
    /\ UNCHANGED <<wraps, lastNow, fires, early, barren, sibling, debt, lostWake>>
    /\ UNCHANGED <<scenario, doneVars, awVars, edgeVars, lockVars, chanVars>>
    /\ lastDrop' = NoDrop /\ nowFresh' = FALSE

\* InputChannel::new: fetch_add on NEXT_CHANNEL, then the manager and the
\* unit are looked up inside one critical section
InputChannelNew ==
    /\ panic = "" /\ newCalls < MaxNewCalls
    /\ LET channel_id == NEXT_CHANNEL
           result == IF ~gpiote THEN <<NoUnit, "GpioteManagerUninitialized">>
                     ELSE get_channel(channel_id)
       IN /\ NEXT_CHANNEL' = channel_id + 1
          /\ channels' = IF result[2] = "" THEN Append(channels, result[1]) ELSE channels
          /\ newLog' = <<newCalls + 1>> \o result
    /\ newCalls' = newCalls + 1
    /\ earlyCalls' = IF gpiote THEN earlyCalls ELSE earlyCalls + 1
    /\ UNCHANGED gpiote
    /\ UNCHANGED <<rtcVars, tickerVars, timerVars, execVars>>
    /\ UNCHANGED <<wraps, lastNow, fires, early, barren, sibling, debt, lostWake>>
    /\ UNCHANGED <<scenario, doneVars, awVars, edgeVars, lockVars, chanVars>>
    /\ lastDrop' = NoDrop /\ nowFresh' = FALSE

\* ------------------------------------------------- gpiote.rs, edge wait
\* the pin of unit u changes level; a configured unit (toggle polarity)
\* latches the event
PinToggle(u) ==
    /\ panic = "" /\ edges < MaxEdges
    /\ pin' = [pin EXCEPT ![u] = 1 - @] /\ edges' = edges + 1
    /\ evIn' = [evIn EXCEPT ![u] = @ \/ u \in Range(channels)]
    /\ UNCHANGED <<WAKE_TASKS, wfState>>
    /\ UNCHANGED <<rtcVars, tickerVars, timerVars, execVars>>
    /\ UNCHANGED <<wraps, lastNow, fires, early, barren, sibling, debt, lostWake>>
    /\ UNCHANGED <<scenario, doneVars, awVars, lockVars, chanVars, gpioVars>>
    /\ lastDrop' = NoDrop /\ nowFresh' = FALSE

\* an interrupt of GPIOTE is pending
EdgePending == \E u \in Units : evIn[u]

\* InputChannel::wait_for, the pin read of one poll: Ready at the awaited level
WaitForRead ==
    /\ ThreadStep /\ ~EdgePending /\ pc = "task"
    /\ Len(channels) > running /\ wfState[running] = "Read"
    /\ IF pin[channels[running + 1]] = ReadyState
       THEN /\ wfState' = [wfState EXCEPT ![running] = "Done"]
            /\ pc' = "dequeue" /\ running' = NoTask
       ELSE /\ wfState' = [wfState EXCEPT ![running] = "Store"]
            /\ UNCHANGED <<pc, running>>
    /\ UNCHANGED <<pin, evIn, WAKE_TASKS, edges>>
    /\ UNCHANGED <<rtcVars, tickerVars, timerVars, TASK_ID_READY, initI, panic, deferred>>
    /\ UNCHANGED <<wraps, lastNow, fires, early, barren, sibling, debt, lostWake>>
    /\ UNCHANGED <<scenario, doneVars, awVars, lockVars, chanVars, gpioVars>>
    /\ lastDrop' = NoDrop /\ nowFresh' = FALSE

\* InputChannel::wait_for after a read of the other level: the task id is
\* stored into WAKE_TASKS[channel_id] and the poll returns Pending
WaitForStore ==
    /\ ThreadStep /\ ~EdgePending /\ pc = "task"
    /\ Len(channels) > running /\ wfState[running] = "Store"
    /\ WAKE_TASKS' = [WAKE_TASKS EXCEPT ![channels[running + 1]] = running]
    /\ wfState' = [wfState EXCEPT ![running] = "Read"]
    /\ pc' = "dequeue" /\ running' = NoTask
    /\ UNCHANGED <<pin, evIn, edges>>
    /\ UNCHANGED <<rtcVars, tickerVars, timerVars, TASK_ID_READY, initI, panic, deferred>>
    /\ UNCHANGED <<wraps, lastNow, fires, early, barren, sibling, debt, lostWake>>
    /\ UNCHANGED <<scenario, doneVars, awVars, lockVars, chanVars, gpioVars>>
    /\ lastDrop' = NoDrop /\ nowFresh' = FALSE

\* a filter that lets every unit through, triggered or not
triggered_every_unit(ev, u) == get_channel(u)[2] = ""

\* the first filter of the handler: the unit exists and its event is latched
triggered(ev, u) == get_channel(u)[2] = "" /\ ev[u]

\* the iterator chain of the handler from unit u on: each triggered unit's
\* entry is swapped for INVALID_TASK_ID and a task found there is woken; a
\* panic of wake_task ends the chain.  <<WAKE_TASKS, ready queue, panic>>
RECURSIVE wake_triggered(_, _, _, _)
wake_triggered(u, slots, ev, q) ==
    IF u = MAX_CHANNELS THEN <<slots, q, "">>
    ELSE IF ~triggered(ev, u) \/ slots[u] = INVALID_TASK_ID
    THEN wake_triggered(u + 1, slots, ev, q)
    ELSE LET woken == wake_task(q, slots[u])
             swapped == [slots EXCEPT ![u] = INVALID_TASK_ID]
         IN IF woken[2] # "" THEN <<swapped, q, woken[2]>>
            ELSE wake_triggered(u + 1, swapped, ev, woken[1])

\* the GPIOTE interrupt handler: the triggered units are served, then every
\* event is reset
GPIOTE ==
    /\ panic = "" /\ EdgePending
    /\ IF ~gpiote
       THEN UNCHANGED <<evIn, WAKE_TASKS, TASK_ID_READY, panic, debt, lostWake>>
       ELSE LET r == wake_triggered(0, WAKE_TASKS, evIn, TASK_ID_READY)
            IN /\ WAKE_TASKS' = r[1]
               /\ TASK_ID_READY' = r[2]
               /\ panic' = r[3]
               /\ evIn' = IF r[3] = "" THEN [u \in Units |-> FALSE] ELSE evIn
               /\ debt' = [t \in Slots |->
                             debt[t] + Count(r[2], t) - Count(TASK_ID_READY, t)]
               /\ lostWake' = (lostWake \/ r[3] # "")
    /\ pc' = IF pc = "sleep" THEN "dequeue" ELSE pc
    /\ UNCHANGED <<pin, wfState, edges>>
    /\ UNCHANGED <<rtcVars, tickerVars, timerVars, initI, running, deferred>>
    /\ UNCHANGED <<wraps, lastNow, fires, early, barren, sibling>>
    /\ UNCHANGED <<scenario, doneVars, awVars, lockVars, chanVars, gpioVars>>
    /\ lastDrop' = NoDrop /\ nowFresh' = FALSE

\* ------------------------------------------------------ utils/lockmut.rs
\* an access that runs the closure on a default value when nothing is stored
with_lock_default(inner, k) ==
    IF inner = NoVal THEN <<k % (MaxLockVal + 1), "", TRUE>>
    ELSE <<(inner + k) % (MaxLockVal + 1), "", TRUE>>

\* LockMut::with_lock with the closure |v| *v += k:
\* <<inner afterwards, panic message, closure applied>>
with_lock(inner, k) ==
    IF inner = NoVal THEN <<inner, "Please initialize the LockMut first", FALSE>>
    ELSE <<(inner + k) % (MaxLockVal + 1), "", TRUE>>

\* LockMut::acquire: <<panic message, reference handed out>>
acquire(inner) ==
    IF inner = NoVal THEN <<"Please initialize the LockMut first", FALSE>>
    ELSE <<"", TRUE>>

\* LockMut::init(val)
LockMutInit(val) ==
    /\ panic = ""
    /\ lmInner' = val
    /\ lmLog' = <<>>
    /\ UNCHANGED <<rtcVars, tickerVars, timerVars, execVars>>
    /\ UNCHANGED <<wraps, lastNow, fires, early, barren, sibling, debt, lostWake>>
    /\ UNCHANGED <<scenario, doneVars, awVars, edgeVars, chanVars, gpioVars>>
    /\ lastDrop' = NoDrop /\ nowFresh' = FALSE

\* LockMut::with_lock(|v| *v += k)
WithLock(k) ==
    /\ panic = ""
    /\ LET r == with_lock(lmInner, k)
       IN /\ lmInner' = r[1]
          /\ panic' = r[2]
          /\ lmLog' = <<"with_lock", lmInner # NoVal, r[3]>>
    /\ UNCHANGED <<rtcVars, tickerVars, timerVars, TASK_ID_READY, pc, initI, running, deferred>>
    /\ UNCHANGED <<wraps, lastNow, fires, early, barren, sibling, debt, lostWake>>
    /\ UNCHANGED <<scenario, doneVars, awVars, edgeVars, chanVars, gpioVars>>
    /\ lastDrop' = NoDrop /\ nowFresh' = FALSE

\* LockMut::acquire(cs)
Acquire ==
    /\ panic = ""
    /\ LET r == acquire(lmInner)
       IN /\ panic' = r[1]
          /\ lmLog' = <<"acquire", lmInner # NoVal, r[2]>>
    /\ UNCHANGED lmInner
    /\ UNCHANGED <<rtcVars, tickerVars, timerVars, TASK_ID_READY, pc, initI, running, deferred>>
    /\ UNCHANGED <<wraps, lastNow, fires, early, barren, sibling, debt, lostWake>>
    /\ UNCHANGED <<scenario, doneVars, awVars, edgeVars, chanVars, gpioVars>>
    /\ lastDrop' = NoDrop /\ nowFresh' = FALSE

\* ------------------------------------------------------- atomic_waker.rs
\* Waker::will_wake for wakers made by WakerManager::get_waker: same data
\* pointer (the task id) and the one VTABLE
will_wake(a, b) == a = b

\* AtomicWaker::register, the slot afterwards
atomic_register(slot, w) ==
    IF slot # NoWaker /\ will_wake(slot, w) THEN slot ELSE w

\* AtomicWaker::wake: <<slot afterwards, waker to call or NoWaker>>
atomic_wake(slot) == <<NoWaker, slot>>

\* AtomicWaker::register(cs, waker) with the waker of task task_id
AtomicRegister(task_id) ==
    /\ panic = ""
    /\ awSlot' = atomic_register(awSlot, task_id)
    /\ UNCHANGED <<rtcVars, tickerVars, timerVars, execVars>>
    /\ UNCHANGED <<wraps, lastNow, fires, early, barren, sibling, debt, lostWake>>
    /\ UNCHANGED <<scenario, doneVars, edgeVars, lockVars, chanVars, gpioVars>>
    /\ lastDrop' = NoDrop /\ nowFresh' = FALSE

\* AtomicWaker::wake(cs) in an interrupt handler: the slot is emptied, then
\* the waker that was in it is called
AtomicWake ==
    /\ panic = ""
    /\ LET r == atomic_wake(awSlot)
           woken == wake_task(TASK_ID_READY, r[2])
       IN /\ awSlot' = r[1]
          /\ IF r[2] = NoWaker
             THEN UNCHANGED <<TASK_ID_READY, panic, debt, lostWake, pc>>
             ELSE /\ TASK_ID_READY' = woken[1]
                  /\ panic' = woken[2]
                  /\ debt' = IF enqueue_ok(TASK_ID_READY) THEN Bump(debt, r[2]) ELSE debt
                  /\ lostWake' = (lostWake \/ ~enqueue_ok(TASK_ID_READY))
                  /\ pc' = IF pc = "sleep" THEN "dequeue" ELSE pc
    /\ UNCHANGED <<rtcVars, tickerVars, timerVars, initI, running, deferred>>
    /\ UNCHANGED <<wraps, lastNow, fires, early, barren, sibling>>
    /\ UNCHANGED <<scenario, doneVars, edgeVars, lockVars, chanVars, gpioVars>>
    /\ lastDrop' = NoDrop /\ nowFresh' = FALSE

Next ==
    \/ Tick
    \/ handle_rtc0_interrupt
    \/ RunEnqueue
    \/ Dequeue
    \/ Wfi
    \/ \E d \in Durations : TimerNew(d)
    \/ TimerPollInit
    \/ TimerPollWait
    \/ TimerPollReady
    \/ TimerDrop
    \/ TaskPending

\* N tasks over MaxOverflow wraparounds of the counter
Init == InitWith(NTasks, (MaxOverflow + 1) * WRAP - 1)
Spec == Init /\ [][Next]_vars

\* one more task, over a few ticks
InitThree == InitWith(NTasks + 1, ShortHorizon)
SpecThree == InitThree /\ [][Next]_vars

\* the executor alone: opaque tasks, woken from interrupt handlers with any
\* task id up to N
NextExec ==
    \/ RunEnqueue
    \/ Dequeue
    \/ Wfi
    \/ TaskPending
    \/ \E id \in 0 .. N : ExternalWake(id)

SpecExec == Init /\ [][NextExec]_vars

\* the mailbox channel between tasks run by the executor; the sending tasks
\* are woken again from interrupt handlers
NextMailbox ==
    \/ RunEnqueue
    \/ Dequeue
    \/ Wfi
    \/ TaskPending
    \/ \E id \in Tasks : ExternalWake(id)
    \/ \E v \in Items : ChannelSend(v)
    \/ ReceiverPollInit
    \/ ReceiverPollWait
    \/ ChannelRecv

SpecMailbox == Init /\ [][NextMailbox]_vars

\* allocation of GPIOTE units
NextGpiote ==
    \/ GpioteInit
    \/ InputChannelNew

SpecGpiote == Init /\ [][NextGpiote]_vars

\* the guarded optionals: a LockMut and the GPIOTE manager, used before and
\* after their initialization
NextFailFast ==
    \/ \E val \in 0 .. MaxLockVal : LockMutInit(val)
    \/ \E k \in 0 .. 1 : WithLock(k)
    \/ Acquire
    \/ GpioteInit
    \/ InputChannelNew

SpecFailFast == Init /\ [][NextFailFast]_vars

\* one AtomicWaker: any waker is registered in it at any time, interrupt
\* handlers fire it, and the executor polls what was woken
NextAtomic ==
    \/ RunEnqueue
    \/ Dequeue
    \/ Wfi
    \/ TaskPending
    \/ \E id \in Tasks : AtomicRegister(id)
    \/ AtomicWake

SpecAtomic == Init /\ [][NextAtomic]_vars

\* run_tasks with two tasks that each wait for a level of their own input
\* pin, the pins and the GPIOTE interrupt
InitEdge == InitWith(2, 0)

NextEdge ==
    \/ GpioteInit
    \/ InputChannelNew
    \/ RunEnqueue
    \/ Dequeue
    \/ Wfi
    \/ \E u \in Tasks : PinToggle(u)
    \/ WaitForRead
    \/ WaitForStore
    \/ GPIOTE

SpecEdge == InitEdge /\ [][NextEdge]_vars

\* tasks that use the mailbox and may run to completion
NextComplete ==
    \/ RunEnqueue
    \/ Dequeue
    \/ Wfi
    \/ TaskPending
    \/ TaskReady
    \/ \E v \in Items : ChannelSend(v)
    \/ ReceiverPollInit
    \/ ReceiverPollWait

SpecComplete == Init /\ [][NextComplete]_vars

\* ============================================================ claims

C2_FiresOnceNotBeforeDeadline ==
    \A t \in Tasks : fires[t] <= 1 /\ ~early[t]

\* C3: a Timer that was dropped is no longer a member of the deadline
\* collection and holds no wake target, so the handler can neither pop it nor
\* wake through it; only live, polled Timers are members.
C3_DroppedTimerDetached ==
    /\ \A t \in Slots : tstate[t] # "Wait" => (~is_linked(deadlines, t) /\ waker[t] = NoWaker)
    /\ \A i, j \in 1 .. Len(deadlines) : i # j => deadlines[i] # deadlines[j]

\* a Timer was just dropped from the middle of three queued Timers
C3_Witness ==
    /\ lastDrop = <<2, 3>>
    /\ Len(deadlines) = 2
    /\ \E t \in Tasks : tstate[t] = "None" /\ ~is_linked(deadlines, t)

\* C4: successive values returned by now() never decrease and each one is
\* the true tick count (wraparounds so far, shifted, or'ed with the counter).
C4_NowMonotonicAndExact ==
    [][lastNow' >= lastNow /\ (nowFresh' => lastNow' = TrueNow')]_vars

\* C5: the deadline collection is sorted ascending by deadline, and
\* peek_earliest (hence each pop_earliest) yields a minimum deadline.
C5_SortedByDeadline ==
    /\ \A i, j \in 1 .. Len(deadlines) :
          i < j => end_time[deadlines[i]] <= end_time[deadlines[j]]
    /\ deadlines # <<>> =>
          \A t \in Range(deadlines) : end_time[peek_earliest(deadlines)] <= end_time[t]

\* three distinct deadlines, inserted latest first, queued earliest first
C5_Witness ==
    /\ deadlines = <<2, 1, 0>>
    /\ end_time[2] < end_time[1] /\ end_time[1] < end_time[0]

\* C8: every valid index pushed onto the ready queue is answered by exactly
\* one poll of that task: pushes minus polls is the number of entries still
\* queued, so no entry is dropped or polled twice and no poll happens
\* without a popped entry.
C8_OnePollPerWake ==
    \A t \in Tasks : debt[t] = Count(TASK_ID_READY, t)

\* a task is being polled while a second wake for it is already queued
C8_Witness ==
    /\ pc = "task" /\ running = 1
    /\ debt[1] = 1 /\ Count(TASK_ID_READY, 1) = 1

\* C9: the core sleeps in wfi only while the ready queue is empty.
C9_SleepOnlyWhenEmpty ==
    pc = "sleep" => TASK_ID_READY = <<>>

\* C10: a push that meets a full ready queue always ends in a panic; no wake
\* is dropped while the system runs on.
C10_OverflowIsFatal ==
    lostWake => panic # ""

\* wake_task met a full queue and panicked
C10_Witness ==
    lostWake /\ panic = "Task Queue is full" /\ Len(TASK_ID_READY) = MAX_TASKS

\* C6: recv() returns the value of the most recent send since the previous
\* recv() (None when there was none) and leaves the slot empty.
C6_MailboxLastWriteWins ==
    recvLog # <<>> => (recvLog[1] = recvLog[2] /\ item = NoItem)

\* send(1); send(2); recv() has returned 2
C6_Witness ==
    recvLog = <<2, 2, TRUE>>

\* C7: when the manager was initialized before the first call, call k of
\* InputChannel::new returns unit k - 1 for k <= MAX_CHANNELS and the
\* OutOfChannels error for every later k, and nothing panics.
C7_EightUnitsThenOutOfChannels ==
    earlyCalls = 0 =>
        /\ panic = ""
        /\ Len(channels) <= MAX_CHANNELS
        /\ \A i \in 1 .. Len(channels) : channels[i] = i - 1
        /\ newLog # <<>> =>
              IF newLog[1] <= MAX_CHANNELS
              THEN newLog[2] = newLog[1] - 1 /\ newLog[3] = ""
              ELSE newLog[2] = NoUnit /\ newLog[3] = "OutOfChannels"

\* the ninth call has returned OutOfChannels after eight units were handed out
C7_Witness ==
    /\ earlyCalls = 0 /\ newLog = <<MAX_CHANNELS + 1, NoUnit, "OutOfChannels">>
    /\ channels = <<0, 1, 2, 3, 4, 5, 6, 7>>

\* C11: with N <= MAX_TASKS tasks, repeated or duplicate wakes of a task
\* (from interrupt handlers or mailbox sends) before it next runs never
\* overflow the ready queue and never end in a panic.
C11_DuplicateWakesNeverOverflow ==
    ~lostWake /\ panic = ""

\* C12: a deadline that does not fit the hardware compare register is
\* refused with DeadlineTooLarge when it is armed: no Timer is ever queued
\* whose deadline differs from the value set_deadline programs for it.
C12_NoTruncatedDeadlineArmed ==
    \A i \in 1 .. Len(deadlines) :
        set_deadline(end_time[deadlines[i]]) = end_time[deadlines[i]]

\* C13: with_lock and acquire on a LockMut that holds nothing panic without
\* applying the closure or handing out a reference, and on one that holds a
\* value they do apply it; InputChannel::new before GpioteManager::init
\* returns GpioteManagerUninitialized and binds no unit.
C13_UninitializedFailsFast ==
    /\ lmLog # <<>> =>
          IF lmLog[2]
          THEN lmLog[3] /\ panic = "" /\ lmInner # NoVal
          ELSE ~lmLog[3] /\ panic = "Please initialize the LockMut first" /\ lmInner = NoVal
    /\ ~gpiote => channels = <<>>
    /\ (newLog # <<>> /\ ~gpiote) =>
          newLog[2] = NoUnit /\ newLog[3] = "GpioteManagerUninitialized"

\* InputChannel::new has been refused before GpioteManager::init and
\* with_lock has then panicked on the empty LockMut
C13_Witness ==
    /\ lmLog = <<"with_lock", FALSE, FALSE>> /\ panic = "Please initialize the LockMut first"
    /\ ~gpiote /\ newLog = <<1, NoUnit, "GpioteManagerUninitialized">>

\* C14: the AtomicWaker slot holds at most one target; wake() on a
\* non-empty slot pushes the stored task index onto the ready queue exactly
\* once and leaves the slot empty; wake() on an empty slot changes nothing;
\* register() of a target that wakes the stored task leaves the slot as it is.
C14_OneShotSlot ==
    [][ /\ awSlot' \in Tasks \cup {NoWaker}
        /\ AtomicWake =>
              /\ awSlot' = NoWaker
              /\ TASK_ID_READY' = IF awSlot = NoWaker THEN TASK_ID_READY
                                  ELSE Append(TASK_ID_READY, awSlot)
        /\ \A id \in Tasks : AtomicRegister(id) =>
              /\ awSlot' = id
              /\ TASK_ID_READY' = TASK_ID_READY ]_vars

\* C15: every popped index outside [0, N), N itself included, is reported
\* and skipped: none is used to index the task array.
C15_BadIndexSkipped ==
    panic # "index out of bounds"

\* C16: a Timer whose deadline lies a full range of the hardware counter or
\* more ahead is not left suspended outside the deadline collection: when
\* its poll returns Pending, the Timer is still linked or a wake of the
\* awaiting task is already queued.
C16_LongTimerNotStranded ==
    [][ (TimerPollWait /\ pc' = "task" /\ end_time[running] - TrueNow >= WRAP)
           => \/ is_linked(deadlines, running)
              \/ Count(TASK_ID_READY, running) > 0 ]_vars

\* C17: no wake-up of a GPIO edge wait is lost: whenever the pin rests at
\* the awaited level with no edge event left to handle, the waiting task has
\* completed wait_for, is being polled, or is on the ready queue.
C17_NoLostEdgeWake ==
    \A t \in Tasks :
        (/\ Len(channels) > t /\ pin[channels[t + 1]] = ReadyState
         /\ ~EdgePending /\ pc \in {"dequeue", "wfi", "sleep", "task"})
            => \/ wfState[t] = "Done"
               \/ running = t
               \/ Count(TASK_ID_READY, t) > 0

\* C18: the mailbox receive strands no value: a first poll of
\* Receiver::recv() that suspends the task finds the slot empty, or leaves
\* a wake of the receiving task queued.
C18_FirstPollNeverStrands ==
    [][ ReceiverPollInit =>
           \/ item = NoItem
           \/ Count(TASK_ID_READY, RecvTask) > 0 ]_vars

\* C19: outside a critical section, whenever the deadline collection is
\* non-empty the compare register holds the low bits of the earliest pending
\* deadline.
C19_CompareTracksEarliest ==
    deadlines # <<>> => cc0 = end_time[peek_earliest(deadlines)] % WRAP

\* the handler has popped one Timer and reprogrammed the register for the
\* one that remains, whose low bits differ
C19_Witness ==
    /\ Len(deadlines) = 1
    /\ \E t \in Tasks :
          /\ fires[t] > 0 /\ tstate[t] = "Wait" /\ ~is_linked(deadlines, t)
          /\ end_time[t] % WRAP # end_time[peek_earliest(deadlines)] % WRAP
    /\ cc0 = end_time[peek_earliest(deadlines)] % WRAP

\* C20: the first poll of a Timer registers it in the deadline collection
\* and returns Pending; a later poll returns Ready only if now() >= deadline,
\* and a Timer whose poll returns Ready is not a member of the collection; a
\* poll with now() < deadline returns Pending and leaves the membership as
\* it was.
C20_TimerPollStateMachine ==
    [][ /\ TimerPollInit =>
              /\ is_linked(deadlines', running) /\ waker'[running] = running
              /\ tstate'[running] = "Wait" /\ pc' = "task"
        /\ TimerPollWait =>
              /\ pc' = "remove" <=> lastNow' >= end_time[running]
              /\ pc' # "remove" => (pc' = "task" /\ tstate'[running] = "Wait")
              /\ deadlines' = deadlines
        /\ TimerPollReady =>
              /\ lastNow >= end_time[running]
              /\ ~is_linked(deadlines', running) /\ tstate'[running] = "None" ]_vars

\* a poll has found now() >= deadline while the Timer is still a member:
\* it is about to detach it and return Ready
C20_Witness ==
    /\ pc = "remove" /\ tstate[running] = "Wait"
    /\ lastNow >= end_time[running] /\ end_time[running] > 0
    /\ is_linked(deadlines, running) /\ Len(deadlines) >= 2

\* C21: one run of the GPIOTE interrupt handler wakes exactly the tasks
\* registered in the units whose event is latched, each once, and empties
\* those units' entries; it leaves the entry of every other unit as it was
\* and leaves every event cleared.
C21_HandlerServesTriggeredUnits ==
    [][ (GPIOTE /\ gpiote) =>
           /\ \A u \in Units :
                 /\ ~evIn'[u]
                 /\ WAKE_TASKS'[u] = IF evIn[u] THEN INVALID_TASK_ID ELSE WAKE_TASKS[u]
           /\ \A t \in Slots :
                 Count(TASK_ID_READY', t) = Count(TASK_ID_READY, t)
                    + Cardinality({u \in Units : evIn[u] /\ WAKE_TASKS[u] = t})
           /\ Len(TASK_ID_READY') = Len(TASK_ID_READY)
                 + Cardinality({u \in Units : evIn[u] /\ WAKE_TASKS[u] # INVALID_TASK_ID})
      ]_vars

\* the handler has woken task 0 for the edge on unit 0 and left the entry of
\* unit 1, where task 1 is registered and no event was latched
C21_Witness ==
    /\ panic = "" /\ ~EdgePending /\ edges = 1 /\ pin[0] = ReadyState
    /\ WAKE_TASKS[0] = INVALID_TASK_ID /\ WAKE_TASKS[1] = 1
    /\ TASK_ID_READY = <<0>> /\ wfState[0] = "Read"

\* C22: Timers with equal deadlines are kept earliest-inserted-first: a
\* Timer that is inserted goes behind every queued Timer with the same
\* deadline and the Timers already queued keep their order, and the handler
\* pops from the front, so equal deadlines are popped in insertion order.
C22_EqualDeadlinesInsertionOrder ==
    [][ /\ (TimerPollInit /\ ~is_linked(deadlines, running)) =>
              /\ is_linked(deadlines', running)
              /\ RemoveAt(deadlines', IndexOf(deadlines', running)) = deadlines
              /\ \A t \in Range(deadlines) :
                    end_time[t] = end_time[running]
                       => IndexOf(deadlines', t) < IndexOf(deadlines', running)
        /\ (handle_rtc0_interrupt /\ deadlines' # deadlines) =>
              deadlines' = Tail(deadlines) ]_vars

\* three Timers with one deadline, queued in the order of their first polls
C22_Witness ==
    /\ deadlines = <<0, 1, 2>>
    /\ end_time[0] = end_time[1] /\ end_time[1] = end_time[2]
    /\ \A t \in Tasks : tstate[t] = "Wait" /\ fires[t] = 0

\* C23: the compare-match branch of the RTC interrupt handler never runs
\* with an empty deadline collection, so its expectation "No deadline
\* available on interrupt" is never violated.
C23_CompareNeverFindsEmptyQueue ==
    panic # "No deadline available on interrupt"

\* C24: the scheduler never polls a task again after a poll of that task
\* has returned Ready, whatever stale wake target is invoked afterwards.
C24_NoPollAfterReady ==
    [][ (Dequeue /\ pc' = "task") => running' \notin completed ]_vars

\* C25: a failed InputChannel::new leaves the allocation state as it was:
\* the number of units that can still be handed out is MAX_CHANNELS less the
\* units handed out so far, and the units handed out are distinct and lie in
\* [0, MAX_CHANNELS).
C25_FailedNewKeepsAllocation ==
    /\ (IF NEXT_CHANNEL < MAX_CHANNELS THEN MAX_CHANNELS - NEXT_CHANNEL ELSE 0)
          = MAX_CHANNELS - Len(channels)
    /\ \A i \in 1 .. Len(channels) : channels[i] \in 0 .. (MAX_CHANNELS - 1)
    /\ \A i, j \in 1 .. Len(channels) : i # j => channels[i] # channels[j]

====
